---- MODULE Spec2Model ----
(***************************************************************************)
(* Model of the RSI live trader: the trailing stop manager                 *)
(* (core/trailing_stop_manager.py) and the part of the trading loop        *)
(* (live_rsi_trader.py) that creates, updates and discards the shadow      *)
(* tracking records and talks to the broker.                               *)
(*                                                                         *)
(* Numbers.  Prices and ATR values are integers counted in points (one     *)
(* point = 0.0001).  Stop levels are kept in hundredths of a point, so     *)
(* that the ATR multipliers of the strategies (0.25, 0.5, 1.5, ...) and    *)
(* the 0.1 x ATR spread buffer are exact: a multiplier m is written        *)
(* 100 x m and a price p is written Pts(p) where it meets a stop.          *)
(* Arithmetic is exact; a broker stop of 0 means "no stop" as in MT5.      *)
(***************************************************************************)
EXTENDS Integers, Sequences, FiniteSets, TLC

VARIABLES
    trailing_stop_manager,  \* "None" or the name of the active strategy
    position_tracking,      \* ticket -> tracking record (the shadow state)
    broker,                 \* ticket -> open position held by the broker
    nextTicket,             \* next ticket the broker assigns
    pc,                     \* position of the trading loop inside a tick
    current_price,          \* close of the bar being processed
    current_atr,            \* ATR of the bar being processed
    positions,              \* the tick's open-position list
    has_buy_position,
    has_sell_position,
    has_any_position,
    todo,                   \* tickets the update loop has still to visit
    side,                   \* entry the tick is about to place
    ticks,                  \* new bars processed so far
    last                    \* what the last step did (observation only)

vars == <<trailing_stop_manager, position_tracking, broker, nextTicket, pc,
          current_price, current_atr, positions, has_buy_position,
          has_sell_position, has_any_position, todo, side, ticks, last>>

----------------------------------------------------------------------------
(* Bounds of the model *)

MaxTicks == 2

MaxSteadyTicks == 4

MaxTickets == 2

(* Inputs: bar closes and ATR values in points, broker stop levels in points *)

Prices == {12500, 12520, 12535, 12540}

LoopPrices == {12500, 12520}

ATRs == {0, 10}

StopsLevels == {15}

(* A price in points, written in hundredths of a point *)
Pts(p) == 100 * p

Abs(x) == IF x < 0 THEN -x ELSE x

Max(a, b) == IF a >= b THEN a ELSE b

Min(a, b) == IF a <= b THEN a ELSE b

----------------------------------------------------------------------------
(* core/trailing_stop_manager.py *)

option_a_pure_trailing ==
    [breakeven_trigger |-> 150, trail_distance |-> 100, hard_stop_distance |-> 200]

option_b_time_based ==
    [breakeven_trigger |-> 200, trail_distance |-> 150, hard_stop_distance |-> 250]

option_c_aggressive ==
    [breakeven_trigger |-> 50, trail_distance |-> 25, hard_stop_distance |-> 50]

StrategyNames == {"A", "B", "C"}

get_strategy(option) ==
    CASE option = "A" -> option_a_pure_trailing
      [] option = "B" -> option_b_time_based
      [] option = "C" -> option_c_aggressive

_calculate_initial_stop(m, position, atr) ==
    IF position.type = "BUY"
    THEN Pts(position.entry) - m.hard_stop_distance * atr
    ELSE Pts(position.entry) + m.hard_stop_distance * atr

manager_initialize_position_tracking(m, position, price, atr) ==
    LET init == _calculate_initial_stop(m, position, atr)
    IN  [type |-> position.type,
         entry |-> position.entry,
         highest_price |-> IF position.type = "BUY" THEN price ELSE position.entry,
         lowest_price |-> IF position.type = "SELL" THEN price ELSE position.entry,
         breakeven_triggered |-> FALSE,
         initial_stop |-> init,
         stop_loss |-> init,
         stop_adjustments |-> << >>]

(* Variant of the peak / trough update that moves both for either type *)
_update_price_tracking_both(position, price) ==
    [position EXCEPT !.highest_price = Max(position.highest_price, price),
                     !.lowest_price = Min(position.lowest_price, price)]

_update_price_tracking(position, price) ==
    IF position.type = "BUY"
    THEN [position EXCEPT !.highest_price = Max(position.highest_price, price)]
    ELSE [position EXCEPT !.lowest_price = Min(position.lowest_price, price)]

_should_move_to_breakeven(m, position, price, atr) ==
    Pts(Abs(price - position.entry)) >= m.breakeven_trigger * atr

(* Variant of the breakeven stop without the spread buffer *)
_calculate_breakeven_stop_at_entry(position, atr) == Pts(position.entry)

(* Variant of the breakeven stop with the spread buffer on the other side *)
_calculate_breakeven_stop_behind_entry(position, atr) ==
    LET spread_buffer == 10 * atr
    IN  IF position.type = "BUY"
        THEN Pts(position.entry) - spread_buffer
        ELSE Pts(position.entry) + spread_buffer

_calculate_breakeven_stop(position, atr) ==
    LET spread_buffer == 10 * atr
    IN  IF position.type = "BUY"
        THEN Pts(position.entry) + spread_buffer
        ELSE Pts(position.entry) - spread_buffer

_is_profitable(position, price) ==
    IF position.type = "BUY"
    THEN price > position.entry
    ELSE price < position.entry

(* Variant of the trailing stop measured from the bar's close *)
_calculate_trailing_stop_from_price(m, position, price, atr) ==
    IF position.type = "BUY"
    THEN Pts(price) - m.trail_distance * atr
    ELSE Pts(price) + m.trail_distance * atr

_calculate_trailing_stop(m, position, price, atr) ==
    IF position.type = "BUY"
    THEN Pts(position.highest_price) - m.trail_distance * atr
    ELSE Pts(position.lowest_price) + m.trail_distance * atr

(* Variants of _is_better_stop: every candidate adopted; ties adopted *)
_is_better_stop_always(position, new_stop) == TRUE

_is_better_stop_or_equal(position, new_stop) ==
    IF position.type = "BUY"
    THEN new_stop >= position.stop_loss
    ELSE new_stop <= position.stop_loss

_is_better_stop(position, new_stop) ==
    IF position.type = "BUY"
    THEN new_stop > position.stop_loss
    ELSE new_stop < position.stop_loss

(* Variant of _log_stop_adjustment that records the initial stop as old_stop *)
_log_stop_adjustment_from_initial(position, new_stop, reason) ==
    [position EXCEPT !.stop_adjustments =
        Append(@, [old_stop |-> position.initial_stop,
                   new_stop |-> new_stop,
                   reason |-> reason])]

_log_stop_adjustment(position, new_stop, reason) ==
    [position EXCEPT !.stop_adjustments =
        Append(@, [old_stop |-> position.stop_loss,
                   new_stop |-> new_stop,
                   reason |-> reason])]

(* Variant of the breakeven stage that does not look at the flag *)
_breakeven_stage_repeated(m, position, price, atr) ==
    _should_move_to_breakeven(m, position, price, atr)

(* The breakeven stage of update_stop_loss is entered only while the flag  *)
(* is still false.                                                         *)
_breakeven_stage(m, position, price, atr) ==
    /\ ~position.breakeven_triggered
    /\ _should_move_to_breakeven(m, position, price, atr)

(* update_stop_loss: the record it leaves behind, the stop it returns and  *)
(* the reason.  It never writes stop_loss: the caller does.                *)
update_stop_loss(m, position, price, atr) ==
    LET p1 == _update_price_tracking(position, price)
    IN  IF _breakeven_stage(m, p1, price, atr)
        THEN LET new_stop == _calculate_breakeven_stop(p1, atr)
                 p2 == [p1 EXCEPT !.breakeven_triggered = TRUE]
             IN  [position |-> _log_stop_adjustment(p2, new_stop, "BREAKEVEN"),
                  new_stop |-> new_stop,
                  reason |-> "BREAKEVEN"]
        ELSE IF /\ p1.breakeven_triggered
                /\ _is_profitable(p1, price)
                /\ _is_better_stop(p1, _calculate_trailing_stop(m, p1, price, atr))
        THEN LET new_stop == _calculate_trailing_stop(m, p1, price, atr)
             IN  [position |-> _log_stop_adjustment(p1, new_stop, "TRAILING"),
                  new_stop |-> new_stop,
                  reason |-> "TRAILING"]
        ELSE [position |-> p1, new_stop |-> p1.stop_loss, reason |-> "UNCHANGED"]

get_stop_statistics(position) ==
    [total_adjustments |-> Len(position.stop_adjustments),
     breakeven_triggered |-> position.breakeven_triggered,
     final_stop |-> position.stop_loss,
     initial_stop |-> position.initial_stop,
     highest_price |-> position.highest_price,
     lowest_price |-> position.lowest_price,
     adjustments |-> position.stop_adjustments]

----------------------------------------------------------------------------
(* live_rsi_trader.py: helpers *)

Tickets == 1..MaxTickets

NoEvent ==
    [kind |-> "none", ticket |-> 0, before |-> 0, after |-> 0,
     reason |-> "", outcome |-> "", tickets |-> {}, tracked |-> {},
     price |-> 0, atr |-> 0, can_open |-> TRUE]

EmptyMap == [t \in {} |-> 0]

Remove(f, S) == [t \in (DOMAIN f) \ S |-> f[t]]

Put(f, t, v) == [x \in (DOMAIN f) \cup {t} |-> IF x = t THEN v ELSE f[x]]

MinOf(S) == CHOOSE x \in S : \A y \in S : x <= y

(* get_current_positions: what the broker holds, or the empty list when    *)
(* positions_get fails and returns None.                                   *)
get_current_positions(ok) ==
    IF ok
    THEN {[ticket |-> t, type |-> broker[t].type] : t \in DOMAIN broker}
    ELSE {}

HasType(ps, type) == \E p \in ps : p.type = type

(* validate_stop_distance, given the broker's stops level (in points): the *)
(* stop itself, or the stop moved to the minimum distance from the price.  *)
validate_stop_distance(stops_level, price, stop_loss, order_type) ==
    IF order_type = "buy"
    THEN IF Pts(price) - stop_loss < Pts(stops_level)
         THEN Pts(price) - Pts(stops_level)
         ELSE stop_loss
    ELSE IF stop_loss - Pts(price) < Pts(stops_level)
         THEN Pts(price) + Pts(stops_level)
         ELSE stop_loss

(* The fields every tick starts from *)
ResetLocals ==
    /\ current_price' = 0
    /\ current_atr' = 0
    /\ positions' = {}
    /\ has_buy_position' = FALSE
    /\ has_sell_position' = FALSE
    /\ has_any_position' = FALSE
    /\ todo' = {}
    /\ side' = "none"

(* Variant of the loop whose handler lets the exception out of the loop *)
after_exception_propagates == "stopped"

(* Where the loop is after an exception raised inside an iteration: the    *)
(* except clause logs it, sleeps 30 seconds, and the while loop polls      *)
(* again.                                                                  *)
after_exception == "poll"

----------------------------------------------------------------------------
(* Initial state: the module globals after live_trading_loop's setup.      *)
(* initialize_trailing_stops leaves the manager None when trailing stops   *)
(* are disabled or the strategy name is unknown.                           *)
Init ==
    /\ trailing_stop_manager \in {"None"} \cup StrategyNames
    /\ position_tracking = EmptyMap
    /\ broker = EmptyMap
    /\ nextTicket = 1
    /\ pc = "poll"
    /\ current_price = 0
    /\ current_atr = 0
    /\ positions = {}
    /\ has_buy_position = FALSE
    /\ has_sell_position = FALSE
    /\ has_any_position = FALSE
    /\ todo = {}
    /\ side = "none"
    /\ ticks = 0
    /\ last = NoEvent

----------------------------------------------------------------------------
(* live_trading_loop: one iteration that finds a new bar.  The bar's close *)
(* and ATR are the inputs of the tick.                                     *)
NewBar(price, atr) ==
    /\ pc = "poll"
    /\ ticks' = ticks + 1
    /\ current_price' = price
    /\ current_atr' = atr
    /\ pc' = "config"
    /\ last' = NoEvent
    /\ UNCHANGED <<trailing_stop_manager, position_tracking, broker, nextTicket,
                   positions, has_buy_position, has_sell_position,
                   has_any_position, todo, side>>

(* check_config_updates / initialize_trailing_stops: the configuration is  *)
(* unchanged, or a runtime change disables the manager or installs the     *)
(* manager of another strategy.  Tracking records are left as they are.    *)
CheckConfigUpdates(option) ==
    /\ pc = "config"
    /\ trailing_stop_manager' = option
    /\ pc' = "query"
    /\ UNCHANGED <<position_tracking, broker, nextTicket, current_price,
                   current_atr, positions, has_buy_position, has_sell_position,
                   has_any_position, todo, side, ticks, last>>

(* Variant of the clean-up that finds nothing to discard *)
find_closed_tickets_none(tracking, open_tickets) == {}

(* The tracked tickets that are not in the tick's list of open positions *)
find_closed_tickets(tracking, open_tickets) == (DOMAIN tracking) \ open_tickets

(* The position query, the recheck made when no bot position was seen, and *)
(* the clean-up of the records whose ticket is not in the tick's list.     *)
QueryAndCleanup(ok, ok_recheck) ==
    /\ pc = "query"
    /\ LET first == get_current_positions(ok)
           bot_positions == {p \in first : p.ticket \in DOMAIN position_tracking}
           any_bot == HasType(bot_positions, "BUY") \/ HasType(bot_positions, "SELL")
           positions_recheck == get_current_positions(ok_recheck)
           found == ~any_bot /\ (HasType(positions_recheck, "BUY")
                                 \/ HasType(positions_recheck, "SELL"))
           list == IF found THEN positions_recheck ELSE first
           open_tickets == {p.ticket : p \in list}
           closed_tickets == find_closed_tickets(position_tracking, open_tickets)
           kept == Remove(position_tracking, closed_tickets)
           loop == IF trailing_stop_manager # "None" /\ DOMAIN kept # {}
                   THEN {t \in open_tickets : t \in DOMAIN kept}
                   ELSE {}
       IN  /\ any_bot => ok_recheck
           /\ positions' = list
           /\ has_buy_position' = IF found THEN HasType(positions_recheck, "BUY")
                                  ELSE HasType(bot_positions, "BUY")
           /\ has_sell_position' = IF found THEN HasType(positions_recheck, "SELL")
                                   ELSE HasType(bot_positions, "SELL")
           /\ has_any_position' = (any_bot \/ found)
           /\ position_tracking' = kept
           /\ todo' = loop
           /\ pc' = IF loop = {} THEN "entry" ELSE "update"
           /\ last' = [NoEvent EXCEPT !.kind = "cleanup",
                          !.tickets = closed_tickets,
                          !.tracked = DOMAIN position_tracking,
                          !.outcome = IF ~ok \/ (~any_bot /\ ~ok_recheck)
                                      THEN "query_failed" ELSE "queried"]
    /\ UNCHANGED <<trailing_stop_manager, broker, nextTicket, current_price,
                   current_atr, side, ticks>>

(* update_position_tracking for the next ticket of the update loop: the    *)
(* manager's update, the write of the returned stop into the record and,   *)
(* when the reason is not UNCHANGED, update_mt5_stop_loss.  The broker     *)
(* call ends in one of three ways: "done" (retcode DONE, the broker holds  *)
(* the validated stop), "rejected" (no tick, invalid distance or another   *)
(* retcode: None is returned) or "notfound" (positions_get(ticket) is      *)
(* empty; the log line reads the unbound local symbol, its handler does    *)
(* too, and the error leaves the tick through the loop's except clause).   *)
UpdatePosition(outcome, stops_level) ==
    /\ pc = "update"
    /\ todo # {}
    /\ LET t == MinOf(todo)
           m == get_strategy(trailing_stop_manager)
           tracked_position == position_tracking[t]
           r == update_stop_loss(m, tracked_position, current_price, current_atr)
           rest == todo \ {t}
       IN  /\ last' = [NoEvent EXCEPT !.kind = "update", !.ticket = t,
                          !.before = tracked_position.stop_loss,
                          !.after = r.new_stop, !.reason = r.reason,
                          !.outcome = outcome, !.price = current_price,
                          !.atr = current_atr,
                          !.tracked = DOMAIN position_tracking]
           /\ IF r.reason # "UNCHANGED"
              THEN /\ position_tracking' =
                        [position_tracking EXCEPT
                            ![t] = [r.position EXCEPT !.stop_loss = r.new_stop]]
                   /\ outcome \in {"done", "rejected", "notfound"}
                   /\ IF outcome = "done"
                      THEN /\ t \in DOMAIN broker
                           /\ stops_level \in StopsLevels
                           /\ broker' = [broker EXCEPT ![t].sl =
                                 validate_stop_distance(stops_level, current_price,
                                     r.new_stop,
                                     IF broker[t].type = "BUY" THEN "buy" ELSE "sell")]
                      ELSE /\ stops_level = 15
                           /\ UNCHANGED broker
              ELSE /\ position_tracking' = [position_tracking EXCEPT ![t] = r.position]
                   /\ outcome = "none"
                   /\ stops_level = 15
                   /\ UNCHANGED broker
           /\ IF outcome = "notfound"
              THEN /\ pc' = after_exception
                   /\ ResetLocals
              ELSE /\ todo' = rest
                   /\ pc' = IF rest = {} THEN "entry" ELSE "update"
                   /\ UNCHANGED <<current_price, current_atr, positions,
                                  has_buy_position, has_sell_position,
                                  has_any_position, side>>
    /\ UNCHANGED <<trailing_stop_manager, nextTicket, ticks>>

(* The entry signal of the bar after the trend filter ("buy", "sell" or    *)
(* "none") and the test that no position is held.                          *)
EvaluateEntry(signal) ==
    /\ pc = "entry"
    /\ IF signal # "none" /\ ~has_any_position
       THEN /\ side' = signal
            /\ pc' = "place"
       ELSE /\ side' = "none"
            /\ pc' = "exit"
    /\ UNCHANGED <<trailing_stop_manager, position_tracking, broker, nextTicket,
                   current_price, current_atr, positions, has_buy_position,
                   has_sell_position, has_any_position, todo, ticks, last>>

(* The initial stop the loop computes for an entry: the manager's hard     *)
(* stop from the bar close, or the legacy ATR stop (multiplier 2.0).       *)
entry_stop_loss(order_type) ==
    LET distance == IF trailing_stop_manager # "None"
                    THEN get_strategy(trailing_stop_manager).hard_stop_distance
                         * current_atr
                    ELSE 200 * current_atr
    IN  IF order_type = "buy"
        THEN Pts(current_price) - distance
        ELSE Pts(current_price) + distance

(* The stop place_buy_order / place_sell_order puts in the request: the    *)
(* validated stop, or none (0) when validate_stop_distance reports failure *)
request_sl(valid, stops_level, stop_loss, order_type) ==
    IF valid
    THEN validate_stop_distance(stops_level, current_price, stop_loss, order_type)
    ELSE 0

(* The position place_*_order picks for tracking: the first one of the     *)
(* list with the order's type, the bot's comment and an open price within  *)
(* 2 points of the fill; 0 when there is none.                             *)
find_position(held, type, price) ==
    LET matches == {t \in DOMAIN held :
                       /\ held[t].type = type
                       /\ Abs(held[t].price_open - price) < 2}
    IN  IF matches = {} THEN 0 ELSE MinOf(matches)

(* Variant of the portfolio risk gate that lets a rejected entry through *)
risk_gate_never_blocks(can_open) == FALSE

(* The portfolio risk gate of the entry branches: a rejected entry ends    *)
(* the iteration (continue).                                               *)
risk_gate_blocks(can_open) == ~can_open

(* Variant of the loop that evaluates the entry again after an attempt *)
after_entry_attempt_again == "entry"

(* Where an iteration goes after place_buy_order / place_sell_order has    *)
(* returned, whatever the result: the BUY and SELL branches are one        *)
(* if / elif, and the RSI exit section follows them.                       *)
after_entry_attempt == "exit"

(* The final position check, the portfolio risk gate and place_buy_order / *)
(* place_sell_order with the tracking initialisation they end with.        *)
PlaceEntry(final_ok, can_open, outcome, valid, stops_level, track, atr) ==
    /\ pc = "place"
    /\ LET type == IF side = "buy" THEN "BUY" ELSE "SELL"
           stop_loss == entry_stop_loss(side)
           sl == request_sl(valid, stops_level, stop_loss, side)
           held == Put(broker, nextTicket,
                       [type |-> type, price_open |-> current_price,
                        sl |-> sl])
           found == find_position(held, type, current_price)
       IN  \/ /\ get_current_positions(final_ok) # {}
              /\ outcome = "duplicate" /\ can_open /\ valid
              /\ stops_level = 15 /\ track = "none" /\ atr = 0
              /\ last' = [NoEvent EXCEPT !.kind = "order", !.outcome = "duplicate"]
              /\ pc' = "poll"
              /\ ResetLocals
              /\ UNCHANGED <<broker, nextTicket, position_tracking>>
           \/ /\ get_current_positions(final_ok) = {}
              /\ risk_gate_blocks(can_open)
              /\ outcome = "blocked" /\ valid
              /\ stops_level = 15 /\ track = "none" /\ atr = 0
              /\ last' = [NoEvent EXCEPT !.kind = "order", !.outcome = "blocked",
                             !.can_open = can_open]
              /\ pc' = "poll"
              /\ ResetLocals
              /\ UNCHANGED <<broker, nextTicket, position_tracking>>
           \/ /\ get_current_positions(final_ok) = {}
              /\ ~risk_gate_blocks(can_open)
              /\ outcome \in {"no_symbol", "rejected"}
              /\ valid /\ stops_level = 15 /\ track = "none" /\ atr = 0
              /\ last' = [NoEvent EXCEPT !.kind = "order", !.outcome = outcome,
                             !.can_open = can_open]
              /\ pc' = after_entry_attempt
              /\ UNCHANGED <<broker, nextTicket, position_tracking, current_price,
                             current_atr, positions, has_buy_position,
                             has_sell_position, has_any_position, todo, side>>
           \/ /\ get_current_positions(final_ok) = {}
              /\ ~risk_gate_blocks(can_open)
              /\ outcome = "filled"
              /\ nextTicket <= MaxTickets
              /\ stops_level \in StopsLevels
              /\ valid \/ stops_level = 15
              /\ broker' = held
              /\ nextTicket' = nextTicket + 1
              /\ IF trailing_stop_manager = "None"
                 THEN /\ track = "none" /\ atr = 0
                      /\ UNCHANGED position_tracking
                 ELSE /\ track \in {"query_failed", "no_bars", "ok"}
                      /\ IF track = "ok" /\ found # 0
                         THEN /\ atr \in ATRs
                              /\ position_tracking' =
                                   Put(position_tracking, found,
                                       manager_initialize_position_tracking(
                                           get_strategy(trailing_stop_manager),
                                           [type |-> type, entry |-> current_price],
                                           current_price, atr))
                         ELSE /\ atr = 0
                              /\ UNCHANGED position_tracking
              /\ last' = [NoEvent EXCEPT !.kind = "order", !.outcome = "filled",
                             !.ticket = nextTicket, !.after = sl, !.reason = track,
                             !.price = current_price, !.atr = atr,
                             !.tracked = DOMAIN position_tracking,
                             !.can_open = can_open]
              /\ pc' = after_entry_attempt
              /\ UNCHANGED <<current_price, current_atr, positions,
                             has_buy_position, has_sell_position,
                             has_any_position, todo, side>>
    /\ UNCHANGED <<trailing_stop_manager, ticks>>

(* Variant of the exit section that does not look at the manager *)
exit_targets_any_manager(exit_signal) ==
    IF has_buy_position /\ exit_signal = "buy"
    THEN {p.ticket : p \in {q \in positions : q.type = "BUY"}}
    ELSE IF has_sell_position /\ exit_signal = "sell"
    THEN {p.ticket : p \in {q \in positions : q.type = "SELL"}}
    ELSE {}

(* The tickets the RSI exit closes: none while a manager is active; else   *)
(* the BUY positions of the list on a BUY exit signal with a BUY position  *)
(* held, the SELL positions on a SELL exit signal with a SELL held.        *)
exit_targets(exit_signal) ==
    IF trailing_stop_manager # "None"
    THEN {}
    ELSE IF has_buy_position /\ exit_signal = "buy"
    THEN {p.ticket : p \in {q \in positions : q.type = "BUY"}}
    ELSE IF has_sell_position /\ exit_signal = "sell"
    THEN {p.ticket : p \in {q \in positions : q.type = "SELL"}}
    ELSE {}

(* close_position drops the ticket's record before it sends the order *)
close_position_tracking(tracking, targets) == Remove(tracking, targets)

(* The exit section and the end of the tick: close_position for every      *)
(* target; closed holds the tickets whose close order the broker confirms, *)
(* the others fail (no symbol info, or a retcode other than DONE).         *)
RsiExit(exit_signal, closed) ==
    /\ pc = "exit"
    /\ LET targets == exit_targets(exit_signal)
       IN  /\ closed \subseteq (targets \cap DOMAIN broker)
           /\ position_tracking' = close_position_tracking(position_tracking, targets)
           /\ broker' = Remove(broker, closed)
           /\ last' = IF targets = {}
                      THEN [NoEvent EXCEPT !.kind = "exit",
                               !.reason = exit_signal]
                      ELSE [NoEvent EXCEPT !.kind = "close",
                               !.reason = exit_signal,
                               !.tickets = targets \ closed,
                               !.tracked = DOMAIN position_tracking]
    /\ pc' = "poll"
    /\ ResetLocals
    /\ UNCHANGED <<trailing_stop_manager, nextTicket, ticks>>

----------------------------------------------------------------------------
(* The broker's side, between two polls *)

(* A position leaves the broker's book: its stop was hit or it was closed  *)
(* by hand.                                                                *)
BrokerClosesPosition(t) ==
    /\ pc = "poll"
    /\ t \in DOMAIN broker
    /\ broker' = Remove(broker, {t})
    /\ last' = NoEvent
    /\ UNCHANGED <<trailing_stop_manager, position_tracking, nextTicket, pc,
                   current_price, current_atr, positions, has_buy_position,
                   has_sell_position, has_any_position, todo, side, ticks>>

----------------------------------------------------------------------------
(* Every failure of a broker call and every runtime change of the          *)
(* trailing-stop configuration are possible here.                          *)
Next ==
    \/ /\ ticks < MaxTicks
       /\ \E price \in LoopPrices, atr \in ATRs : NewBar(price, atr)
    \/ \E option \in {"None"} \cup StrategyNames : CheckConfigUpdates(option)
    \/ \E ok \in BOOLEAN, ok_recheck \in BOOLEAN : QueryAndCleanup(ok, ok_recheck)
    \/ \E outcome \in {"none", "done", "rejected", "notfound"},
          stops_level \in StopsLevels : UpdatePosition(outcome, stops_level)
    \/ \E signal \in {"none", "buy", "sell"} : EvaluateEntry(signal)
    \/ \E final_ok \in BOOLEAN, can_open \in BOOLEAN,
          outcome \in {"duplicate", "blocked", "no_symbol", "rejected", "filled"},
          valid \in BOOLEAN, stops_level \in StopsLevels,
          track \in {"none", "query_failed", "no_bars", "ok"},
          atr \in ATRs : PlaceEntry(final_ok, can_open, outcome, valid,
                                    stops_level, track, atr)
    \/ \E exit_signal \in {"none", "buy", "sell"}, closed \in SUBSET Tickets :
          RsiExit(exit_signal, closed)
    \/ \E t \in Tickets : BrokerClosesPosition(t)

Spec == Init /\ [][Next]_vars

(* The same loop over a longer run of bars with a configuration that stays *)
(* as loaded and a broker whose queries and orders succeed; a stop         *)
(* modification may still be rejected.                                     *)
NextSteady ==
    \/ /\ ticks < MaxSteadyTicks
       /\ \E price \in Prices, atr \in ATRs : NewBar(price, atr)
    \/ CheckConfigUpdates(trailing_stop_manager)
    \/ QueryAndCleanup(TRUE, TRUE)
    \/ \E outcome \in {"none", "done", "rejected"},
          stops_level \in StopsLevels : UpdatePosition(outcome, stops_level)
    \/ \E signal \in {"none", "buy", "sell"} : EvaluateEntry(signal)
    \/ \E stops_level \in StopsLevels, atr \in ATRs :
          PlaceEntry(TRUE, TRUE, "filled", TRUE, stops_level, "ok", atr)
    \/ RsiExit("none", {})

InitSteady == Init /\ trailing_stop_manager # "None"

SpecSteady == InitSteady /\ [][NextSteady]_vars

----------------------------------------------------------------------------
(* The loop under errors.  The user's interrupt, the one way out of the    *)
(* loop, is not part of this specification.                                *)

MaxLiveTicks == 2

(* The bar fetch fails (copy_rates_from_pos returns None): the loop logs,  *)
(* sleeps 30 seconds and polls again.                                      *)
FetchFails ==
    /\ pc = "poll"
    /\ last' = [NoEvent EXCEPT !.kind = "fetch_failed"]
    /\ UNCHANGED <<trailing_stop_manager, position_tracking, broker, nextTicket,
                   pc, current_price, current_atr, positions, has_buy_position,
                   has_sell_position, has_any_position, todo, side, ticks>>

(* An exception raised at any point of an iteration that processes a bar:  *)
(* what the iteration did so far stays done, the rest of it is skipped.    *)
TickRaises ==
    /\ pc \in {"config", "query", "update", "entry", "place", "exit"}
    /\ pc' = after_exception
    /\ ResetLocals
    /\ last' = [NoEvent EXCEPT !.kind = "error"]
    /\ UNCHANGED <<trailing_stop_manager, position_tracking, broker, nextTicket,
                   ticks>>

(* A new bar arrives and its fetch succeeds *)
NewBarArrives ==
    /\ ticks < MaxLiveTicks
    /\ \E price \in LoopPrices : NewBar(price, 10)

(* The steps of an iteration that processes a bar, with the failures of    *)
(* the broker calls; the configuration stays as loaded.                    *)
TickStep ==
    \/ CheckConfigUpdates(trailing_stop_manager)
    \/ \E ok \in BOOLEAN, ok_recheck \in BOOLEAN : QueryAndCleanup(ok, ok_recheck)
    \/ \E outcome \in {"none", "done", "rejected", "notfound"},
          stops_level \in StopsLevels : UpdatePosition(outcome, stops_level)
    \/ \E signal \in {"none", "buy", "sell"} : EvaluateEntry(signal)
    \/ \E final_ok \in BOOLEAN, can_open \in BOOLEAN,
          outcome \in {"duplicate", "blocked", "no_symbol", "rejected", "filled"},
          valid \in BOOLEAN, stops_level \in StopsLevels,
          track \in {"none", "query_failed", "no_bars", "ok"},
          atr \in ATRs : PlaceEntry(final_ok, can_open, outcome, valid,
                                    stops_level, track, atr)
    \/ \E exit_signal \in {"none", "buy", "sell"}, closed \in SUBSET Tickets :
          RsiExit(exit_signal, closed)

NextLive ==
    \/ NewBarArrives
    \/ FetchFails
    \/ TickStep
    \/ TickRaises
    \/ \E t \in Tickets : BrokerClosesPosition(t)

(* The manager is the one of strategy A, or trailing stops are disabled *)
InitLive == Init /\ trailing_stop_manager \in {"None", "A"}

(* The loop is one sequential thread: an iteration it began goes on to its *)
(* next step (or to its except clause).  The market goes on producing      *)
(* bars, and a fetch failure is transient.                                 *)
SpecLive ==
    /\ InitLive
    /\ [][NextLive]_vars
    /\ WF_vars(TickStep \/ TickRaises)
    /\ WF_vars(NewBarArrives)

----------------------------------------------------------------------------
(* Startup: live_trading_loop's call of initialize_trailing_stops with the *)
(* configuration as written in the file.                                   *)

(* Strategy names a configuration file may hold *)
ConfiguredNames == {"A", "b", "C", "c", "D", "x", ""}

(* str.upper on the names above *)
upper(name) ==
    CASE name = "b" -> "B"
      [] name = "c" -> "C"
      [] name = "x" -> "X"
      [] OTHER -> name

(* TrailingStopStrategy.get_strategy raises ValueError for the option *)
get_strategy_raises(option) == upper(option) \notin StrategyNames

(* initialize_trailing_stops from the initial globals (manager and current *)
(* strategy both None): the manager it leaves and the value it returns.    *)
(* The ValueError of get_strategy is caught and logged.                    *)
initialize_trailing_stops(enabled, strategy) ==
    IF ~enabled
    THEN [manager |-> "None", returned |-> FALSE]
    ELSE IF get_strategy_raises(upper(strategy))
    THEN [manager |-> "None", returned |-> FALSE]
    ELSE [manager |-> upper(upper(strategy)), returned |-> TRUE]

(* live_trading_loop up to its while loop: a False from                    *)
(* initialize_trailing_stops is logged as a warning and the setup goes on. *)
InitStart ==
    \E enabled \in BOOLEAN, strategy \in ConfiguredNames :
        LET r == initialize_trailing_stops(enabled, strategy)
        IN  /\ trailing_stop_manager = r.manager
            /\ position_tracking = EmptyMap
            /\ broker = EmptyMap
            /\ nextTicket = 1
            /\ pc = "poll"
            /\ current_price = 0
            /\ current_atr = 0
            /\ positions = {}
            /\ has_buy_position = FALSE
            /\ has_sell_position = FALSE
            /\ has_any_position = FALSE
            /\ todo = {}
            /\ side = "none"
            /\ ticks = 0
            /\ last = [NoEvent EXCEPT !.kind = "startup", !.reason = strategy,
                          !.outcome = IF enabled THEN "enabled" ELSE "disabled"]

SpecStart == InitStart /\ [][Next]_vars

----------------------------------------------------------------------------
(* core/risk_manager.py and the sizing and portfolio functions of          *)
(* live_rsi_trader.py.  A behaviour of this part makes one call, with      *)
(* inputs the broker and the configuration can supply, and stops.          *)
(*                                                                         *)
(* Numbers.  Balances and risk amounts are in cents, risk percentages in   *)
(* tenths of a percent, stop distances and prices in points, lot sizes in  *)
(* thousandths of a lot.  A size that the code holds as a float is a       *)
(* fraction num / den here; percentages are compared by cross              *)
(* multiplication, so the arithmetic is exact.  The contract size is the   *)
(* forex one, 100000: one point of stop distance on one thousandth of a    *)
(* lot is 0.0001 x 100000 x 0.001 = 0.01, one cent.                        *)

(* Everything but the observation of the last step *)
loop_vars == <<trailing_stop_manager, position_tracking, broker, nextTicket,
               pc, current_price, current_atr, positions, has_buy_position,
               has_sell_position, has_any_position, todo, side, ticks>>

Balances == {0, 20000, 100000}

RiskPercents == {10, 20}

StopDistances == {0, 20, 100}

MinLots == {10, 500}

MaxLots == {50, 1000}

(* round(x, 2) of a size num / den in thousandths of a lot: the nearest    *)
(* hundredth of a lot.  When the decimal value lies exactly between two    *)
(* hundredths the float's binary expansion decides; tie_up is that         *)
(* outcome.                                                                *)
round_2(num, den, tie_up) ==
    LET q == num \div (10 * den)
        rem == num - q * 10 * den
    IN  IF 2 * rem < 10 * den THEN 10 * q
        ELSE IF 2 * rem > 10 * den THEN 10 * (q + 1)
        ELSE IF tie_up THEN 10 * (q + 1) ELSE 10 * q

(* The fallback of calculate_position_size: min(0.1, max_lot) *)
fallback_size(max_lot) == Min(100, max_lot)

(* RiskManager.calculate_position_size.  given is FALSE when stop_distance *)
(* is None.  risk_amount = balance x risk / 1000 cents; one thousandth of  *)
(* a lot risks stop_distance cents.                                        *)
calculate_position_size(balance, risk, given, stop_distance, min_lot, max_lot, tie_up) ==
    IF ~given \/ stop_distance <= 0
    THEN fallback_size(max_lot)
    ELSE LET num == balance * risk
             den == 1000 * stop_distance
             clamped_num == IF num > max_lot * den THEN max_lot * den ELSE num
             floored_num == IF clamped_num < min_lot * den
                            THEN min_lot * den ELSE clamped_num
         IN  round_2(floored_num, den, tie_up)

CalculatePositionSize(balance, risk, given, stop_distance, min_lot, max_lot, tie_up) ==
    /\ pc = "poll"
    /\ min_lot <= max_lot
    /\ given \/ stop_distance = 0
    /\ last' = [kind |-> "calculate_position_size", balance |-> balance,
                risk |-> risk, given |-> given,
                stop_distance |-> stop_distance, min_lot |-> min_lot,
                max_lot |-> max_lot,
                result |-> calculate_position_size(balance, risk, given,
                              stop_distance, min_lot, max_lot, tie_up)]
    /\ UNCHANGED loop_vars

(* What mt5.positions_get() can return: positions of this bot (magic      *)
(* 12345) on any symbol and positions opened by hand or by other programs, *)
(* with or without a stop (sl 0).  info tells whether symbol_info and the  *)
(* pip value of the position's symbol are obtained during the call.        *)
BookPositions ==
    {[ticket |-> 1, magic |-> 12345, price_open |-> 12500, sl |-> 12480,
      volume |-> 100, info |-> TRUE],
     [ticket |-> 2, magic |-> 12345, price_open |-> 12520, sl |-> 0,
      volume |-> 100, info |-> TRUE],
     [ticket |-> 3, magic |-> 99, price_open |-> 12500, sl |-> 12400,
      volume |-> 100, info |-> TRUE],
     [ticket |-> 4, magic |-> 12345, price_open |-> 12540, sl |-> 12560,
      volume |-> 10, info |-> FALSE]}

Books == SUBSET BookPositions

Sizes == {40, 50}

MaxTotalRisks == {20, 60}

(* Variant of the position filter that counts every position of the book *)
counts_in_portfolio_any_magic(pos) == pos.sl > 0 /\ pos.info

(* The positions calculate_current_portfolio_risk adds up: the bot's magic *)
(* number, a stop above 0, symbol info and pip value obtained.             *)
counts_in_portfolio(pos) == pos.magic = 12345 /\ pos.sl > 0 /\ pos.info

(* stop_distance_pips x pip_value x contract_size x volume, in cents *)
position_risk(pos) == Abs(pos.price_open - pos.sl) * pos.volume

RECURSIVE total_risk(_)
total_risk(book) ==
    IF book = {} THEN 0
    ELSE LET pos == CHOOSE x \in book : TRUE
         IN  (IF counts_in_portfolio(pos) THEN position_risk(pos) ELSE 0)
             + total_risk(book \ {pos})

(* calculate_current_portfolio_risk: the amount in cents and the percent   *)
(* of the balance, kept as amount x 1000 over the balance (tenths of a     *)
(* percent); both are 0 when the balance or the positions are not          *)
(* obtained, and the percent is 0 when the balance is not positive.        *)
calculate_current_portfolio_risk(balance_ok, balance, positions_ok, book) ==
    IF ~balance_ok \/ ~positions_ok
    THEN [total_risk_amount |-> 0, percent_num |-> 0]
    ELSE [total_risk_amount |-> total_risk(book),
          percent_num |-> IF balance > 0 THEN 1000 * total_risk(book) ELSE 0]

CalculateCurrentPortfolioRisk(balance_ok, balance, positions_ok, book) ==
    /\ pc = "poll"
    /\ last' = [kind |-> "calculate_current_portfolio_risk",
                balance_ok |-> balance_ok, balance |-> balance,
                positions_ok |-> positions_ok, book |-> book,
                result |-> calculate_current_portfolio_risk(balance_ok,
                              balance, positions_ok, book)]
    /\ UNCHANGED loop_vars

(* Variant of the limit test that also rejects a sum equal to the limit *)
exceeds_limit_or_equal(total_num, max_total, balance) ==
    total_num >= max_total * balance

(* total_risk_after > max_total_risk_percent, both sides multiplied by the *)
(* balance                                                                 *)
exceeds_limit(total_num, max_total, balance) ==
    total_num > max_total * balance

(* can_open_new_position, given what calculate_current_portfolio_risk      *)
(* returned.  The percentages are kept multiplied by the balance.  With a  *)
(* balance of 0 the division by the balance raises ZeroDivisionError.      *)
can_open_new_position(current, balance_ok, balance, symbol_ok, stop_distance, position_size, max_total) ==
    IF ~balance_ok
    THEN [raised |-> FALSE, can_open |-> FALSE, current_num |-> 0,
          new_num |-> 0, reason |-> "Could not get account balance"]
    ELSE IF ~symbol_ok
    THEN [raised |-> FALSE, can_open |-> FALSE,
          current_num |-> current.percent_num, new_num |-> 0,
          reason |-> "Could not get symbol information"]
    ELSE IF balance = 0
    THEN [raised |-> TRUE, can_open |-> FALSE, current_num |-> 0,
          new_num |-> 0, reason |-> "ZeroDivisionError"]
    ELSE LET new_num == 1000 * stop_distance * position_size
         IN  IF exceeds_limit(current.percent_num + new_num, max_total, balance)
             THEN [raised |-> FALSE, can_open |-> FALSE,
                   current_num |-> current.percent_num, new_num |-> new_num,
                   reason |-> "Portfolio risk limit exceeded"]
             ELSE [raised |-> FALSE, can_open |-> TRUE,
                   current_num |-> current.percent_num, new_num |-> new_num,
                   reason |-> "Within risk limits"]

CanOpenNewPosition(balance_ok1, positions_ok, book, balance_ok, symbol_ok, balance, stop_distance, position_size, max_total) ==
    /\ pc = "poll"
    /\ last' = [kind |-> "can_open_new_position",
                balance_ok1 |-> balance_ok1, positions_ok |-> positions_ok,
                book |-> book, balance_ok |-> balance_ok,
                symbol_ok |-> symbol_ok, balance |-> balance,
                stop_distance |-> stop_distance,
                position_size |-> position_size, max_total |-> max_total,
                result |-> can_open_new_position(
                              calculate_current_portfolio_risk(balance_ok1,
                                  balance, positions_ok, book),
                              balance_ok, balance, symbol_ok, stop_distance,
                              position_size, max_total)]
    /\ UNCHANGED loop_vars

MinSizes == {10}

MaxSizePercents == {5}

MaxSizeAbsolutes == {20}

MaxRisksPerTrade == {15}

(* The smaller and the larger of two sizes held as fractions <<num, den>> *)
frac_min(a, b) == IF a[1] * b[2] <= b[1] * a[2] THEN a ELSE b

frac_max(a, b) == IF a[1] * b[2] >= b[1] * a[2] THEN a ELSE b

(* The constraints both sizing functions apply to the risk-based size:     *)
(* max(min_size, .), then min(., dynamic_max_size), then the absolute      *)
(* maximum when one is configured.                                         *)
apply_size_limits(size, min_size, dynamic_max_size, has_absolute, max_size_absolute) ==
    LET floored == frac_max(<<min_size, 1>>, size)
        capped == frac_min(floored, dynamic_max_size)
    IN  IF has_absolute THEN frac_min(capped, <<max_size_absolute, 1>>)
        ELSE capped

(* calculate_dynamic_position_size of live_rsi_trader.py (advanced FALSE)  *)
(* and RiskManager.calculate_advanced_position_size for a symbol that is   *)
(* not a JPY pair (advanced TRUE); they differ in dynamic_max_size:        *)
(* balance x percent / 100 / 1000 lots against balance x percent / 100 /   *)
(* (contract_size / 30) lots.  The balance is taken in dollars here.       *)
calculate_dynamic_position_size(advanced, balance_ok, balance, symbol_ok, risk, max_risk, stop_distance, min_size, max_size_percent, has_absolute, max_size_absolute, tie_up) ==
    LET dollars == balance \div 100
        effective_risk_percent == Min(risk, max_risk)
        size == <<dollars * effective_risk_percent, 10 * stop_distance>>
        dynamic_max_size == IF advanced
                            THEN <<3 * dollars * max_size_percent, 1000>>
                            ELSE <<dollars * max_size_percent, 100>>
        limited == apply_size_limits(size, min_size, dynamic_max_size,
                                     has_absolute, max_size_absolute)
    IN  IF ~balance_ok \/ ~symbol_ok \/ stop_distance <= 0
        THEN min_size
        ELSE round_2(limited[1], limited[2], tie_up)

CalculateDynamicPositionSize(advanced, balance_ok, balance, symbol_ok, risk, max_risk, stop_distance, min_size, max_size_percent, has_absolute, max_size_absolute, tie_up) ==
    /\ pc = "poll"
    /\ last' = [kind |-> "calculate_dynamic_position_size",
                advanced |-> advanced, balance_ok |-> balance_ok,
                balance |-> balance, symbol_ok |-> symbol_ok, risk |-> risk,
                max_risk |-> max_risk, stop_distance |-> stop_distance,
                min_size |-> min_size, max_size_percent |-> max_size_percent,
                has_absolute |-> has_absolute,
                max_size_absolute |-> max_size_absolute,
                result |-> calculate_dynamic_position_size(advanced,
                              balance_ok, balance, symbol_ok, risk, max_risk,
                              stop_distance, min_size, max_size_percent,
                              has_absolute, max_size_absolute, tie_up)]
    /\ UNCHANGED loop_vars

(* RiskManager.calculate_advanced_position_size and the risk            *)
(* RiskManager.can_open_new_position then attributes to its size.  Stop    *)
(* distances stay in points of 0.0001 of the quote currency for every      *)
(* symbol (the pip size cancels in both functions: stop_distance_pips x    *)
(* pip_size = stop_distance); entry_price is in whole units of the quote   *)
(* currency.                                                               *)
EntryPrices == {100, 125}

AdvancedStopDistances == {0, 100, 10000}

(* The risk-based size before the constraints, in thousandths of a lot:    *)
(* for a JPY symbol risk_amount / (stop_distance_pips x pip_size /         *)
(* entry_price x contract_size), otherwise risk_amount / (stop_distance x  *)
(* contract_size).                                                         *)
risk_position_size(jpy, dollars, effective_risk_percent, entry_price, stop_distance) ==
    IF jpy
    THEN <<dollars * effective_risk_percent * entry_price, 10 * stop_distance>>
    ELSE <<dollars * effective_risk_percent, 10 * stop_distance>>

(* balance x max_size_percent / 100 / (contract_size / 30) lots *)
advanced_dynamic_max_size(dollars, max_size_percent) ==
    <<3 * dollars * max_size_percent, 1000>>

calculate_advanced_position_size(jpy, entry_price, balance_ok, balance, symbol_ok, risk, max_risk, stop_distance, min_size, max_size_percent, has_absolute, max_size_absolute, tie_up) ==
    LET dollars == balance \div 100
        effective_risk_percent == Min(risk, max_risk)
        limited == apply_size_limits(
                       risk_position_size(jpy, dollars, effective_risk_percent,
                                          entry_price, stop_distance),
                       min_size,
                       advanced_dynamic_max_size(dollars, max_size_percent),
                       has_absolute, max_size_absolute)
    IN  IF ~balance_ok \/ ~symbol_ok \/ stop_distance <= 0
        THEN min_size
        ELSE round_2(limited[1], limited[2], tie_up)

(* new_position_risk_percent of RiskManager.can_open_new_position, kept    *)
(* multiplied by the balance in cents (tenths of a percent):               *)
(* stop_distance_pips x pip_value x contract_size x position_size is       *)
(* stop_distance x position_size cents.                                    *)
new_position_risk_percent(stop_distance, position_size) ==
    1000 * stop_distance * position_size

(* A size from calculate_advanced_position_size handed to                  *)
(* can_open_new_position with the same symbol, entry price and stop        *)
AdvancedSizeThenCanOpen(jpy, entry_price, balance, risk, max_risk, stop_distance, min_size, max_size_percent, has_absolute, max_size_absolute, tie_up) ==
    /\ pc = "poll"
    /\ balance > 0
    /\ LET position_size == calculate_advanced_position_size(jpy, entry_price,
                                TRUE, balance, TRUE, risk, max_risk,
                                stop_distance, min_size, max_size_percent,
                                has_absolute, max_size_absolute, tie_up)
       IN  last' = [kind |-> "advanced_size_then_can_open", jpy |-> jpy,
                    entry_price |-> entry_price, balance |-> balance,
                    risk |-> risk, max_risk |-> max_risk,
                    stop_distance |-> stop_distance, min_size |-> min_size,
                    max_size_percent |-> max_size_percent,
                    has_absolute |-> has_absolute,
                    max_size_absolute |-> max_size_absolute,
                    position_size |-> position_size,
                    new_num |-> new_position_risk_percent(stop_distance,
                                                          position_size)]
    /\ UNCHANGED loop_vars

NextRisk ==
    \/ /\ last = NoEvent
       /\ \E advanced \in BOOLEAN, balance_ok \in BOOLEAN,
             balance \in Balances, symbol_ok \in BOOLEAN,
             risk \in RiskPercents, max_risk \in MaxRisksPerTrade,
             stop_distance \in StopDistances, min_size \in MinSizes,
             max_size_percent \in MaxSizePercents, has_absolute \in BOOLEAN,
             max_size_absolute \in MaxSizeAbsolutes, tie_up \in BOOLEAN :
             CalculateDynamicPositionSize(advanced, balance_ok, balance,
                 symbol_ok, risk, max_risk, stop_distance, min_size,
                 max_size_percent, has_absolute, max_size_absolute, tie_up)
    \/ /\ last = NoEvent
       /\ \E balance_ok \in BOOLEAN, balance \in Balances,
             positions_ok \in BOOLEAN, book \in Books :
             CalculateCurrentPortfolioRisk(balance_ok, balance, positions_ok,
                                           book)
    \/ /\ last = NoEvent
       /\ \E balance_ok1 \in BOOLEAN, positions_ok \in BOOLEAN,
             book \in Books, balance_ok \in BOOLEAN, symbol_ok \in BOOLEAN,
             balance \in Balances, stop_distance \in StopDistances,
             position_size \in Sizes, max_total \in MaxTotalRisks :
             CanOpenNewPosition(balance_ok1, positions_ok, book, balance_ok,
                                symbol_ok, balance, stop_distance,
                                position_size, max_total)
    \/ /\ last = NoEvent
       /\ \E balance \in Balances, risk \in RiskPercents, given \in BOOLEAN,
             stop_distance \in StopDistances, min_lot \in MinLots,
             max_lot \in MaxLots, tie_up \in BOOLEAN :
             CalculatePositionSize(balance, risk, given, stop_distance,
                                   min_lot, max_lot, tie_up)
    \/ /\ last = NoEvent
       /\ \E jpy \in BOOLEAN, entry_price \in EntryPrices,
             balance \in Balances, risk \in RiskPercents,
             max_risk \in MaxRisksPerTrade,
             stop_distance \in AdvancedStopDistances, min_size \in MinSizes,
             max_size_percent \in MaxSizePercents, has_absolute \in BOOLEAN,
             max_size_absolute \in MaxSizeAbsolutes, tie_up \in BOOLEAN :
             AdvancedSizeThenCanOpen(jpy, entry_price, balance, risk, max_risk,
                 stop_distance, min_size, max_size_percent, has_absolute,
                 max_size_absolute, tie_up)

SpecRisk == Init /\ [][NextRisk]_vars

----------------------------------------------------------------------------
(* core/signal_generator.py and core/indicators: single calls, with the    *)
(* call's inputs and its result held in last.  RSI levels and RSI values   *)
(* are whole numbers of the 0..100 scale.                                  *)

RsiLevels == {20, 30, 50, 70}

(* RSISignalGenerator.__init__: the three levels are stored as given.      *)
(* method names the last method that ran on the object.                    *)
RSISignalGenerator(rsi_oversold, rsi_overbought, rsi_exit_level) ==
    [kind |-> "RSISignalGenerator", method |-> "__init__", raised |-> FALSE,
     rsi_oversold |-> rsi_oversold, rsi_overbought |-> rsi_overbought,
     rsi_exit_level |-> rsi_exit_level]

(* RSISignalGenerator.update_levels: every level that is given (not None)  *)
(* replaces the stored one.                                                *)
update_levels(self, has_oversold, rsi_oversold, has_overbought, rsi_overbought, has_exit_level, rsi_exit_level) ==
    [self EXCEPT
        !.method = "update_levels",
        !.rsi_oversold = IF has_oversold THEN rsi_oversold ELSE @,
        !.rsi_overbought = IF has_overbought THEN rsi_overbought ELSE @,
        !.rsi_exit_level = IF has_exit_level THEN rsi_exit_level ELSE @]

NewRSISignalGenerator(rsi_oversold, rsi_overbought, rsi_exit_level) ==
    /\ pc = "poll"
    /\ last' = RSISignalGenerator(rsi_oversold, rsi_overbought, rsi_exit_level)
    /\ UNCHANGED loop_vars

UpdateLevels(has_oversold, rsi_oversold, has_overbought, rsi_overbought, has_exit_level, rsi_exit_level) ==
    /\ pc = "poll"
    /\ last.kind = "RSISignalGenerator"
    /\ last.method = "__init__"
    /\ has_oversold \/ rsi_oversold = 30
    /\ has_overbought \/ rsi_overbought = 70
    /\ has_exit_level \/ rsi_exit_level = 50
    /\ last' = update_levels(last, has_oversold, rsi_oversold, has_overbought,
                             rsi_overbought, has_exit_level, rsi_exit_level)
    /\ UNCHANGED loop_vars

(* The float "not a number", the value pandas gives a missing element *)
NaN == -1

(* Float comparisons: every comparison with NaN is false *)
nan_lt(a, b) == a # NaN /\ b # NaN /\ a < b

nan_gt(a, b) == a # NaN /\ b # NaN /\ a > b

(* Series.iloc[i] of a series held as a sequence: i counts from 0, and a   *)
(* negative i counts from the end; outside the series it raises IndexError *)
iloc_raises(series, i) == i < -Len(series) \/ i >= Len(series)

iloc(series, i) ==
    IF i >= 0 THEN series[i + 1] ELSE series[Len(series) + i + 1]

(* ImprovedRSIEntry with its default levels (extreme levels 25 and 75,     *)
(* volume spike threshold 1.3).  A frame df holds the rsi column (or lacks *)
(* it), and the volume, its 20-bar mean and the two EMAs at current_idx    *)
(* (the EMA columns may be missing).                                       *)
FrameRsiValues == {NaN, 28, 35, 65, 72}

FrameLengths == {2, 3}

FrameIndexes == 0..3

Frames ==
    [rsi : UNION {[1..n -> FrameRsiValues] : n \in FrameLengths},
     has_rsi : BOOLEAN, has_ema : BOOLEAN,
     volumes : {<<20, 10>>, <<10, 10>>, <<10, NaN>>},
     emas : {<<101, 100>>, <<100, 101>>, <<NaN, 100>>}]

(* Variant of the guard that asks for one previous bar only *)
enough_bars_one(current_idx) == current_idx >= 1

(* if current_idx < 2: return False *)
enough_bars(current_idx) == current_idx >= 2

(* The reads of the try block raise KeyError or IndexError *)
signal_reads_raise(df, current_idx) ==
    \/ ~df.has_rsi
    \/ iloc_raises(df.rsi, current_idx)
    \/ iloc_raises(df.rsi, current_idx - 1)
    \/ iloc_raises(df.rsi, current_idx - 2)
    \/ ~df.has_ema

volume_spike(df) ==
    LET volume == df.volumes[1]
        volume_avg == df.volumes[2]
    IN  IF nan_gt(volume_avg, 0)
        THEN nan_gt(10 * volume, IF volume_avg = NaN THEN NaN ELSE 13 * volume_avg)
        ELSE TRUE

generate_buy_signal(df, current_idx) ==
    IF ~enough_bars(current_idx)
    THEN FALSE
    ELSE IF signal_reads_raise(df, current_idx)
    THEN FALSE
    ELSE LET rsi == iloc(df.rsi, current_idx)
             rsi_prev == iloc(df.rsi, current_idx - 1)
             oversold_recovery == /\ nan_lt(rsi_prev, 30)
                                  /\ nan_gt(rsi, rsi_prev)
                                  /\ nan_lt(rsi, 40)
             uptrend_context == nan_gt(df.emas[1], df.emas[2])
             not_falling_knife == nan_gt(rsi, 25)
         IN  /\ oversold_recovery
             /\ volume_spike(df)
             /\ uptrend_context
             /\ not_falling_knife

generate_sell_signal(df, current_idx) ==
    IF ~enough_bars(current_idx)
    THEN FALSE
    ELSE IF signal_reads_raise(df, current_idx)
    THEN FALSE
    ELSE LET rsi == iloc(df.rsi, current_idx)
             rsi_prev == iloc(df.rsi, current_idx - 1)
             overbought_recovery == /\ nan_gt(rsi_prev, 70)
                                    /\ nan_lt(rsi, rsi_prev)
                                    /\ nan_gt(rsi, 60)
             downtrend_context == nan_lt(df.emas[1], df.emas[2])
             not_falling_knife == nan_lt(rsi, 75)
         IN  /\ overbought_recovery
             /\ volume_spike(df)
             /\ downtrend_context
             /\ not_falling_knife

GenerateSignal(order_type, df, current_idx) ==
    /\ pc = "poll"
    /\ last' = [kind |-> "generate_signal", side |-> order_type, df |-> df,
                current_idx |-> current_idx,
                result |-> IF order_type = "buy"
                           THEN generate_buy_signal(df, current_idx)
                           ELSE generate_sell_signal(df, current_idx)]
    /\ UNCHANGED loop_vars

(* core/indicators/base.py and trend.py.  Prices and EMA values are in     *)
(* points.                                                                 *)

(* BaseIndicator.validate_data raises ValueError: the length of the data   *)
(* is below the period of the indicator object (self.period).              *)
validate_data_raises(self_period, length) == length < self_period

(* The period of the EMACalculator that TrendFilter.__init__ builds with   *)
(* no argument: BaseIndicator's default.                                   *)
ema_calculator_period == 14

(* EMACalculator.calculate raises: validate_data looks at the period of    *)
(* the object, whatever period the call asks for.                          *)
ema_calculate_raises(self_period, length, period) ==
    validate_data_raises(self_period, length)

(* The periods live_trading_loop gives its TrendFilter by default *)
trend_fast_ema == 9

trend_medium_ema == 21

trend_slow_ema == 50

(* Lengths of the price series, around the calculator's period and the     *)
(* slow period of the filter (50 in the loop's configuration)              *)
PriceLengths == {13, 14, 49, 50}

(* Last values of the three EMAs: prices.ewm(span, adjust=False).mean()    *)
(* has a number wherever the series had a number so far, so NaN stands for *)
(* a series without any.                                                   *)
EmaValues == {NaN, 997, 998, 999, 1000, 1001, 1002, 1003}

LastPrices == {996, 1000, 1004}

(* Variant of the strength test that counts the threshold itself as strong *)
is_strong_or_equal(difference, current_slow) ==
    1000 * difference >= 2 * current_slow

(* difference / current_slow > 0.002, for a positive current_slow *)
is_strong(difference, current_slow) == 1000 * difference > 2 * current_slow

(* TrendFilter.calculate_trend on a series of the given length whose EMAs  *)
(* end in the given values and whose last price is last_price.          *)
calculate_trend(length, ema_fast, ema_medium, ema_slow, last_price) ==
    IF \/ ema_calculate_raises(ema_calculator_period, length, trend_fast_ema)
       \/ ema_calculate_raises(ema_calculator_period, length, trend_medium_ema)
       \/ ema_calculate_raises(ema_calculator_period, length, trend_slow_ema)
    THEN [raised |-> TRUE, direction |-> "", strength |-> "",
          allow_buy |-> FALSE, allow_sell |-> FALSE]
    ELSE IF NaN \in {ema_fast, ema_medium, ema_slow}
    THEN [raised |-> FALSE, direction |-> "neutral", strength |-> "neutral",
          allow_buy |-> TRUE, allow_sell |-> TRUE]
    ELSE IF /\ ema_fast > ema_medium /\ ema_medium > ema_slow
            /\ last_price > ema_fast
    THEN LET strength == IF is_strong(ema_fast - ema_slow, ema_slow)
                         THEN "strong" ELSE "weak"
         IN  [raised |-> FALSE, direction |-> "up", strength |-> strength,
              allow_buy |-> TRUE, allow_sell |-> strength # "strong"]
    ELSE IF /\ ema_fast < ema_medium /\ ema_medium < ema_slow
            /\ last_price < ema_fast
    THEN LET strength == IF is_strong(ema_slow - ema_fast, ema_slow)
                         THEN "strong" ELSE "weak"
         IN  [raised |-> FALSE, direction |-> "down", strength |-> strength,
              allow_buy |-> strength # "strong", allow_sell |-> TRUE]
    ELSE [raised |-> FALSE, direction |-> "sideways", strength |-> "neutral",
          allow_buy |-> TRUE, allow_sell |-> TRUE]

CalculateTrend(length, ema_fast, ema_medium, ema_slow, last_price) ==
    /\ pc = "poll"
    /\ last' = [kind |-> "calculate_trend", length |-> length,
                ema_fast |-> ema_fast, ema_medium |-> ema_medium,
                ema_slow |-> ema_slow, current_price |-> last_price,
                result |-> calculate_trend(length, ema_fast, ema_medium,
                                           ema_slow, last_price)]
    /\ UNCHANGED loop_vars

(* The start of calculate in RSICalculator, EMACalculator and               *)
(* ATRCalculator (its columns present): the period of the calculation is   *)
(* the override when one is given, else the object's; validate_data then   *)
(* looks at the object's period.                                           *)
IndicatorPeriods == {5, 14, 30}

DataLengths == {3, 10, 20, 40}

indicator_calculate(self_period, length, has_override, override) ==
    LET period == IF has_override THEN override ELSE self_period
        raised == validate_data_raises(self_period, length)
    IN  [period |-> period, raised |-> raised, computed |-> ~raised]

IndicatorCalculate(indicator, self_period, length, has_override, override) ==
    /\ pc = "poll"
    /\ has_override \/ override = self_period
    /\ last' = [kind |-> "calculate", indicator |-> indicator,
                self_period |-> self_period, length |-> length,
                has_override |-> has_override,
                result |-> indicator_calculate(self_period, length,
                                               has_override, override)]
    /\ UNCHANGED loop_vars

(* core/indicators/oscillators.py: RSICalculator.calculate in exact        *)
(* arithmetic.  A value of the result is NaN or a fraction num / den.      *)
RsiPrices == {10, 11, 12}

RsiPriceLengths == 1..4

RsiSelfPeriods == {1, 2, 3}

RsiOverrides == {2, 14}

RECURSIVE Pow(_, _)
Pow(b, e) == IF e = 0 THEN 1 ELSE b * Pow(b, e - 1)

(* prices.diff().dropna() *)
diff(prices) == [i \in 1..(Len(prices) - 1) |-> prices[i + 1] - prices[i]]

(* delta.where(delta > 0, 0) *)
gains(delta) == [i \in DOMAIN delta |-> IF delta[i] > 0 THEN delta[i] ELSE 0]

(* -delta.where(delta < 0, 0) *)
losses(delta) == [i \in DOMAIN delta |-> IF delta[i] < 0 THEN -delta[i] ELSE 0]

(* x.ewm(alpha=1/period, adjust=False).mean() at position t (from 1), as   *)
(* the numerator over period^(t-1):                                        *)
(*   y[1] = x[1],  y[t] = (1 - alpha) * y[t-1] + alpha * x[t]              *)
RECURSIVE ewm_mean(_, _, _)
ewm_mean(x, period, t) ==
    IF t = 1
    THEN x[1]
    ELSE (period - 1) * ewm_mean(x, period, t - 1) + x[t] * Pow(period, t - 2)

rsi_nan == [nan |-> TRUE, num |-> 0, den |-> 1]

rsi_number(num, den) == [nan |-> FALSE, num |-> num, den |-> den]

(* Variant that takes a zero smoothed loss as neutral *)
rsi_value_zero_loss_neutral(avg_gain, avg_loss) ==
    IF avg_loss = 0
    THEN rsi_number(50, 1)
    ELSE rsi_number(100 * avg_gain, avg_gain + avg_loss)

(* rs = avg_gain / avg_loss; rsi = 100 - 100 / (1 + rs); fillna(50):       *)
(* 0 / 0 is NaN and becomes 50, a positive gain over 0 is inf and gives    *)
(* 100, and otherwise the value is 100 * avg_gain / (avg_gain + avg_loss). *)
rsi_value(avg_gain, avg_loss) ==
    IF avg_loss = 0
    THEN IF avg_gain = 0 THEN rsi_number(50, 1) ELSE rsi_number(100, 1)
    ELSE rsi_number(100 * avg_gain, avg_gain + avg_loss)

rsi_calculate(self_period, has_override, override, prices) ==
    IF validate_data_raises(self_period, Len(prices))
    THEN [raised |-> TRUE, rsi |-> <<>>]
    ELSE LET period == IF has_override THEN override ELSE self_period
             delta == diff(prices)
             avg_gain(t) == ewm_mean(gains(delta), period, t)
             avg_loss(t) == ewm_mean(losses(delta), period, t)
             flat == \A t \in DOMAIN delta : avg_gain(t) = 0 /\ avg_loss(t) = 0
         IN  IF flat
             THEN [raised |-> FALSE,
                   rsi |-> [i \in 1..Len(prices) |-> rsi_number(50, 1)]]
             ELSE [raised |-> FALSE,
                   rsi |-> [i \in 1..Len(prices) |->
                              IF i = 1
                              THEN rsi_nan
                              ELSE rsi_value(avg_gain(i - 1), avg_loss(i - 1))]]

RsiCalculate(self_period, has_override, override, prices) ==
    /\ pc = "poll"
    /\ has_override \/ override = 2
    /\ last' = [kind |-> "rsi", self_period |-> self_period,
                has_override |-> has_override, override |-> override,
                prices |-> prices,
                result |-> rsi_calculate(self_period, has_override, override,
                                         prices)]
    /\ UNCHANGED loop_vars

NextCore ==
    \/ /\ last = NoEvent
       /\ \E self_period \in RsiSelfPeriods, has_override \in BOOLEAN,
             override \in RsiOverrides,
             prices \in UNION {[1..n -> RsiPrices] : n \in RsiPriceLengths} :
             RsiCalculate(self_period, has_override, override, prices)
    \/ /\ last = NoEvent
       /\ \E indicator \in {"RSICalculator", "EMACalculator", "ATRCalculator"},
             self_period \in IndicatorPeriods, length \in DataLengths,
             has_override \in BOOLEAN, override \in IndicatorPeriods :
             IndicatorCalculate(indicator, self_period, length, has_override,
                                override)
    \/ /\ last = NoEvent
       /\ \E length \in PriceLengths, ema_fast \in EmaValues,
             ema_medium \in EmaValues, ema_slow \in EmaValues,
             last_price \in LastPrices :
             CalculateTrend(length, ema_fast, ema_medium, ema_slow,
                            last_price)
    \/ /\ last = NoEvent
       /\ \E order_type \in {"buy", "sell"}, df \in Frames,
             current_idx \in FrameIndexes :
             GenerateSignal(order_type, df, current_idx)
    \/ /\ last = NoEvent
       /\ \E rsi_oversold \in RsiLevels, rsi_overbought \in RsiLevels,
             rsi_exit_level \in RsiLevels :
             NewRSISignalGenerator(rsi_oversold, rsi_overbought, rsi_exit_level)
    \/ \E has_oversold \in BOOLEAN, rsi_oversold \in RsiLevels,
          has_overbought \in BOOLEAN, rsi_overbought \in RsiLevels,
          has_exit_level \in BOOLEAN, rsi_exit_level \in RsiLevels :
          UpdateLevels(has_oversold, rsi_oversold, has_overbought,
                       rsi_overbought, has_exit_level, rsi_exit_level)

(* The loop is not running: these calls do not read its state *)
InitCore == Init /\ trailing_stop_manager = "None"

SpecCore == InitCore /\ [][NextCore]_vars

----------------------------------------------------------------------------
(* Properties *)

ListTickets(ps) == {p.ticket : p \in ps}

Surviving == (DOMAIN position_tracking) \cap (DOMAIN position_tracking')

(* C1: once breakeven has triggered for a tracked position, no step of the *)
(* loop loosens its tracked stop: a BUY stop never decreases, a SELL stop  *)
(* never increases (the breakeven jump itself included).                   *)
C1Step ==
    \A t \in Surviving :
        position_tracking'[t].breakeven_triggered =>
            IF position_tracking[t].type = "BUY"
            THEN position_tracking'[t].stop_loss >= position_tracking[t].stop_loss
            ELSE position_tracking'[t].stop_loss <= position_tracking[t].stop_loss

C1_StopNeverLoosens == [][C1Step]_vars

(* C1 witness: a record that went to breakeven and then trailed, and whose *)
(* latest update offered a looser candidate and kept the stop.             *)
C1_Witness ==
    /\ last.kind = "update" /\ last.reason = "UNCHANGED"
    /\ last.ticket \in DOMAIN position_tracking
    /\ LET r == position_tracking[last.ticket]
       IN  /\ Len(r.stop_adjustments) >= 2
           /\ _is_profitable(r, last.price)
           /\ ~_is_better_stop(r, _calculate_trailing_stop(
                  get_strategy(trailing_stop_manager), r, last.price, last.atr))
           /\ _calculate_trailing_stop(
                  get_strategy(trailing_stop_manager), r, last.price, last.atr)
              # r.stop_loss

(* C2: when the broker does not confirm a stop modification, the tracked   *)
(* stop after the update equals the tracked stop before it.                *)
C2_RejectedModifyKeepsStop ==
    (/\ last.kind = "update"
     /\ last.outcome \in {"rejected", "notfound"}
     /\ last.ticket \in DOMAIN position_tracking)
        => position_tracking[last.ticket].stop_loss = last.before

(* C3: the clean-up step leaves only records whose ticket is in the tick's *)
(* list of open positions, and every update of the tick is for a ticket of *)
(* that list.                                                              *)
C3Step ==
    /\ pc = "query" => (DOMAIN position_tracking') \subseteq ListTickets(positions')
    /\ pc = "update" => last'.ticket \in ListTickets(positions)

C3_TrackingWithinOpenList == [][C3Step]_vars

(* C3 witness: an update made in a tick whose clean-up kept the record of  *)
(* a position of the list.                                                 *)
C3_Witness ==
    /\ last.kind = "update"
    /\ pc = "entry"
    /\ last.ticket \in ListTickets(positions)
    /\ DOMAIN position_tracking = {last.ticket}
    /\ last.tracked = {last.ticket}

(* C4: a record whose close order failed is still in position_tracking     *)
C4_FailedCloseKeepsRecord ==
    last.kind = "close" =>
        (last.tickets \cap last.tracked) \subseteq DOMAIN position_tracking

(* C5: a tick whose position query failed keeps the records of the         *)
(* positions that are still open at the broker.                            *)
C5_FailedQueryKeepsRecords ==
    (last.kind = "cleanup" /\ last.outcome = "query_failed") =>
        (last.tracked \cap DOMAIN broker) \subseteq DOMAIN position_tracking

(* C6: after an entry order that succeeded under an active manager, the    *)
(* new position's ticket has a tracking record, and the record that the    *)
(* order created is for a ticket that had none.                            *)
C6_FilledOrderIsTracked ==
    (/\ last.kind = "order" /\ last.outcome = "filled"
     /\ trailing_stop_manager # "None")
        => /\ last.ticket \in DOMAIN position_tracking
           /\ (DOMAIN position_tracking) \cap last.tracked = {}

(* C7: an entry order that succeeded under an active manager carried a     *)
(* stop-loss, and no position of the bot is held without one.              *)
C7_FilledOrderHasStop ==
    (/\ last.kind = "order" /\ last.outcome = "filled"
     /\ trailing_stop_manager # "None")
        => /\ last.after # 0
           /\ broker[last.ticket].sl # 0

(* C8: the breakeven flag of a record never goes back to false, an update  *)
(* of a record whose flag is set never returns BREAKEVEN, and a record     *)
(* logs at most one BREAKEVEN adjustment.                                  *)
BreakevenCount(r) ==
    Cardinality({i \in 1..Len(r.stop_adjustments) :
                    r.stop_adjustments[i].reason = "BREAKEVEN"})

C8Step ==
    \A t \in Surviving :
        /\ position_tracking[t].breakeven_triggered =>
              /\ position_tracking'[t].breakeven_triggered
              /\ ~(last'.kind = "update" /\ last'.ticket = t
                   /\ last'.reason = "BREAKEVEN" /\ pc = "update")
        /\ BreakevenCount(position_tracking'[t]) <= 1

C8_BreakevenOnce == [][C8Step]_vars

(* C8 witness: an update of a record whose flag was already set, on a bar  *)
(* that meets the breakeven distance again.                                *)
C8_Witness ==
    /\ last.kind = "update" /\ last.reason # "BREAKEVEN"
    /\ last.ticket \in DOMAIN position_tracking
    /\ LET r == position_tracking[last.ticket]
       IN  /\ r.breakeven_triggered
           /\ BreakevenCount(r) = 1
           /\ _should_move_to_breakeven(get_strategy(trailing_stop_manager),
                                        r, last.price, last.atr)

(* C9: an update returns BREAKEVEN only on a bar where the position is in  *)
(* profit by at least breakeven_trigger x ATR.                             *)
C9_BreakevenOnlyInProfit ==
    (/\ last.kind = "update" /\ last.reason = "BREAKEVEN"
     /\ last.ticket \in DOMAIN position_tracking)
        => LET r == position_tracking[last.ticket]
               m == get_strategy(trailing_stop_manager)
           IN  IF r.type = "BUY"
               THEN Pts(last.price - r.entry) >= m.breakeven_trigger * last.atr
               ELSE Pts(r.entry - last.price) >= m.breakeven_trigger * last.atr

(* C10: the BUY scenario under strategy A with ATR 10 points throughout:   *)
(* entry at 12500 gives the stop 12480; a bar at 12520 gives BREAKEVEN and *)
(* the stop 12501; a bar at 12540 gives TRAILING and the stop 12530; a bar *)
(* at 12535 gives UNCHANGED and leaves the stop at 12530.                  *)
ScenarioOpened ==
    [type |-> "BUY", entry |-> 12500, highest_price |-> 12500,
     lowest_price |-> 12500, breakeven_triggered |-> FALSE,
     initial_stop |-> 1248000, stop_loss |-> 1248000,
     stop_adjustments |-> << >>]

ScenarioAtBreakeven ==
    [ScenarioOpened EXCEPT
        !.highest_price = 12520, !.breakeven_triggered = TRUE,
        !.stop_loss = 1250100,
        !.stop_adjustments = <<[old_stop |-> 1248000, new_stop |-> 1250100,
                                reason |-> "BREAKEVEN"]>>]

ScenarioTrailing ==
    [ScenarioAtBreakeven EXCEPT
        !.highest_price = 12540, !.stop_loss = 1253000,
        !.stop_adjustments = Append(@, [old_stop |-> 1250100,
                                        new_stop |-> 1253000,
                                        reason |-> "TRAILING"])]

C10Step ==
    /\ (/\ pc = "place" /\ side = "buy" /\ current_price = 12500
        /\ trailing_stop_manager = "A"
        /\ last'.kind = "order" /\ last'.outcome = "filled" /\ last'.atr = 10
        /\ last'.ticket \in DOMAIN position_tracking')
           => position_tracking'[last'.ticket] = ScenarioOpened
    /\ (/\ pc = "update" /\ trailing_stop_manager = "A" /\ current_atr = 10)
           => LET t == last'.ticket
                  r == position_tracking[t]
                  r2 == position_tracking'[t]
              IN  /\ (r = ScenarioOpened /\ current_price = 12520)
                        => /\ last'.reason = "BREAKEVEN"
                           /\ last'.after = 1250100
                           /\ r2 = ScenarioAtBreakeven
                  /\ (r = ScenarioAtBreakeven /\ current_price = 12540)
                        => /\ last'.reason = "TRAILING"
                           /\ last'.after = 1253000
                           /\ r2 = ScenarioTrailing
                  /\ (r = ScenarioTrailing /\ current_price = 12535)
                        => /\ last'.reason = "UNCHANGED"
                           /\ last'.after = 1253000
                           /\ r2 = ScenarioTrailing

C10_Scenario == [][C10Step]_vars

(* C10 witness: the end of the scenario, every stage of it logged *)
C10_Witness ==
    /\ last.kind = "update" /\ last.reason = "UNCHANGED"
    /\ last.price = 12535 /\ last.atr = 10 /\ last.before = 1253000
    /\ trailing_stop_manager = "A"
    /\ last.ticket \in DOMAIN position_tracking
    /\ position_tracking[last.ticket] = ScenarioTrailing


(* C11: an update of a record whose flag is not set, on a bar at least     *)
(* breakeven_trigger x ATR away from the entry, returns entry + 0.1 x ATR  *)
(* for a BUY (entry - 0.1 x ATR for a SELL) with the reason BREAKEVEN,     *)
(* sets the flag and logs exactly one adjustment, the breakeven one; the   *)
(* trailing rule is not applied in that update.                            *)
C11Step ==
    (pc = "update" /\ last'.kind = "update") =>
        LET t == last'.ticket
            r == position_tracking[t]
            r2 == position_tracking'[t]
            m == get_strategy(trailing_stop_manager)
            distance == IF current_price >= r.entry
                        THEN current_price - r.entry
                        ELSE r.entry - current_price
            expected == IF r.type = "BUY"
                        THEN 100 * r.entry + 10 * current_atr
                        ELSE 100 * r.entry - 10 * current_atr
        IN  (/\ ~r.breakeven_triggered
             /\ 100 * distance >= m.breakeven_trigger * current_atr)
                => /\ last'.reason = "BREAKEVEN"
                   /\ last'.after = expected
                   /\ r2.breakeven_triggered
                   /\ r2.stop_loss = expected
                   /\ Len(r2.stop_adjustments) = Len(r.stop_adjustments) + 1
                   /\ r2.stop_adjustments[Len(r2.stop_adjustments)] =
                         [old_stop |-> r.stop_loss, new_stop |-> expected,
                          reason |-> "BREAKEVEN"]

C12Step ==
    (pc = "update" /\ last'.kind = "update") =>
        LET t == last'.ticket
            r == position_tracking[t]
            r2 == position_tracking'[t]
            m == get_strategy(trailing_stop_manager)
            peak == IF current_price > r.highest_price
                    THEN current_price ELSE r.highest_price
            trough == IF current_price < r.lowest_price
                      THEN current_price ELSE r.lowest_price
            candidate == IF r.type = "BUY"
                         THEN 100 * peak - m.trail_distance * current_atr
                         ELSE 100 * trough + m.trail_distance * current_atr
            beyond == IF r.type = "BUY"
                      THEN current_price > r.entry
                      ELSE current_price < r.entry
            better == IF r.type = "BUY"
                      THEN candidate > r.stop_loss
                      ELSE candidate < r.stop_loss
        IN  (r.breakeven_triggered /\ beyond) =>
                IF better
                THEN /\ last'.reason = "TRAILING"
                     /\ last'.after = candidate
                     /\ r2.stop_loss = candidate
                ELSE /\ last'.reason = "UNCHANGED"
                     /\ last'.after = r.stop_loss
                     /\ r2.stop_loss = r.stop_loss
                     /\ r2.stop_adjustments = r.stop_adjustments

C12_TrailingUpdate == [][C12Step]_vars

(* C12 witness: a flagged record in profit whose candidate equals its stop *)
(* (a tie) after an earlier trailing adjustment, left UNCHANGED.           *)
C12_Witness ==
    /\ last.kind = "update" /\ last.reason = "UNCHANGED" /\ last.atr > 0
    /\ last.ticket \in DOMAIN position_tracking
    /\ LET r == position_tracking[last.ticket]
           m == get_strategy(trailing_stop_manager)
       IN  /\ r.breakeven_triggered
           /\ IF r.type = "BUY"
              THEN /\ last.price > r.entry
                   /\ 100 * r.highest_price - m.trail_distance * last.atr
                        = r.stop_loss
              ELSE /\ last.price < r.entry
                   /\ 100 * r.lowest_price + m.trail_distance * last.atr
                        = r.stop_loss
           /\ \E i \in 1..Len(r.stop_adjustments) :
                  r.stop_adjustments[i].reason = "TRAILING"


(* C13: the exit section of a tick in which a manager is active closes no  *)
(* position, whatever the exit signal: the broker's book and the tracking  *)
(* records are as before the section and no close is issued.               *)
C13Step ==
    (pc = "exit" /\ trailing_stop_manager # "None") =>
        /\ last'.kind # "close"
        /\ broker' = broker
        /\ position_tracking' = position_tracking

C13_NoRsiExitUnderManager == [][C13Step]_vars

(* C13 witness: the end of a tick under a manager whose exit signal fired  *)
(* for a tracked position the broker holds, and still holds.               *)
C13_Witness ==
    /\ last.kind = "exit" /\ last.reason \in {"buy", "sell"}
    /\ trailing_stop_manager # "None"
    /\ \E t \in (DOMAIN broker) \cap (DOMAIN position_tracking) :
          broker[t].type = (IF last.reason = "buy" THEN "BUY" ELSE "SELL")


(* C16: calculate_position_size returns a size within [min_lot, max_lot],  *)
(* the fallback path and the rounding included, and returns the fallback   *)
(* size min(0.1, max_lot) when stop_distance is missing or not positive.   *)
C16_SizeWithinLotLimits ==
    last.kind = "calculate_position_size" =>
        /\ last.min_lot <= last.result
        /\ last.result <= last.max_lot
        /\ (~last.given \/ last.stop_distance <= 0) =>
              last.result = (IF last.max_lot < 100 THEN last.max_lot ELSE 100)


(* The stop distance x volume of the positions of a book whose ticket is   *)
(* in a set, added up ticket by ticket.                                    *)
RECURSIVE RiskOfTickets(_, _)
RiskOfTickets(book, tickets) ==
    IF tickets = {} THEN 0
    ELSE LET t == CHOOSE x \in tickets : \A y \in tickets : x <= y
             held == {pos \in book : pos.ticket = t}
             pos == CHOOSE x \in held : TRUE
             distance == IF pos.price_open >= pos.sl
                         THEN pos.price_open - pos.sl
                         ELSE pos.sl - pos.price_open
         IN  (IF held = {} THEN 0 ELSE distance * pos.volume)
             + RiskOfTickets(book, tickets \ {t})

C17_SizeWithinPerTradeRisk ==
    (/\ last.kind = "calculate_dynamic_position_size"
     /\ last.balance_ok /\ last.symbol_ok /\ last.stop_distance > 0)
        => 1000 * last.stop_distance * last.result
              <= last.balance * last.max_risk


(* C15: when the portfolio risk gate rejects the entry of a tick, no order *)
(* is sent: the broker's book, the ticket counter and the tracking map are *)
(* as before, and the tick ends there, so the entry is neither re-checked  *)
(* nor placed with another size.                                           *)
C15Step ==
    (pc = "place" /\ last'.kind = "order" /\ ~last'.can_open) =>
        /\ broker' = broker
        /\ nextTicket' = nextTicket
        /\ position_tracking' = position_tracking
        /\ last'.outcome = "blocked"
        /\ pc' = "poll"

C15_RejectedEntryPlacesNoOrder == [][C15Step]_vars

(* C15 witness: the end of a tick whose entry passed the final position    *)
(* check and was rejected by the gate.                                     *)
C15_Witness ==
    /\ last.kind = "order" /\ last.outcome = "blocked" /\ ~last.can_open
    /\ pc = "poll"
    /\ ticks > 0


(* C20: a rejected entry order creates no tracking record and leaves the   *)
(* tracking map (and the broker's book) as it was; a tick sends at most    *)
(* one entry order: orders are sent only by the placement step, after      *)
(* which the tick has nothing left but its exit section.                   *)
C20Step ==
    /\ (pc = "place" /\ last'.kind = "order"
           /\ last'.outcome \in {"rejected", "no_symbol"}) =>
          /\ position_tracking' = position_tracking
          /\ broker' = broker
          /\ nextTicket' = nextTicket
    /\ nextTicket' # nextTicket => pc = "place"
    /\ pc = "place" => pc' \in {"place", "exit", "poll"}
    /\ pc = "exit" => pc' \in {"exit", "poll"}

C20_RejectedOrderLeavesNoRecord == [][C20Step]_vars

(* C20 witness: an order was rejected while a manager was active (a fill   *)
(* would have been tracked), and the tick is in its exit section.          *)
C20_Witness ==
    /\ last.kind = "order" /\ last.outcome = "rejected"
    /\ trailing_stop_manager # "None"
    /\ pc = "exit"


(* C19: no error of a tick ends the loop.  After a failed bar fetch, an    *)
(* exception raised inside an iteration, or the unbound-local error of a   *)
(* stop update, the loop is polling again and, while bars keep coming,     *)
(* goes on to process a later bar.                                         *)
C19_Failed ==
    \/ last.kind \in {"error", "fetch_failed"}
    \/ last.kind = "update" /\ last.outcome = "notfound"

C19_LoopSurvivesErrors ==
    (C19_Failed /\ ticks < MaxLiveTicks) ~> (pc = "config")

(* C19 witness: an exception ended an iteration, the loop is back at its   *)
(* poll and a bar is still to come.                                        *)
C19_Witness ==
    /\ last.kind = "error"
    /\ pc = "poll"
    /\ ticks > 0 /\ ticks < MaxLiveTicks


(* C21: with trailing stops enabled and a strategy name other than A, B or *)
(* C (in any case) configured, the loop never processes a tick.            *)
C21Step ==
    (/\ last.kind = "startup" /\ last.outcome = "enabled"
     /\ get_strategy_raises(last.reason)) => ticks' = ticks

C21_UnknownStrategyStopsBot == [][C21Step]_vars


(* C22: no RSI signal generator exists whose oversold level is at or above *)
(* its overbought level.                                                   *)
C22_GeneratorLevelsOrdered ==
    last.kind = "RSISignalGenerator" => last.rsi_oversold < last.rsi_overbought


(* C23: the momentum-filtered entry signals are false whenever the         *)
(* previous bar's RSI is unavailable: the bar index is below 2, the rsi    *)
(* column or the previous element does not exist, or its value is missing. *)
C23_PreviousRsiUnavailable ==
    \/ last.current_idx < 2
    \/ ~last.df.has_rsi
    \/ last.current_idx - 1 >= Len(last.df.rsi)
    \/ last.df.rsi[last.current_idx] = NaN

C23_NoSignalWithoutPreviousRsi ==
    (last.kind = "generate_signal" /\ C23_PreviousRsiUnavailable)
        => last.result = FALSE

(* C23 witness: a frame on which the signal fires, next to which the       *)
(* frames without the previous RSI stay silent; and such a silent call     *)
(* whose other conditions are all met.                                     *)
C23_Witness ==
    /\ last.kind = "generate_signal"
    /\ last.current_idx = 2
    /\ last.df.has_rsi /\ last.df.has_ema
    /\ last.df.rsi = <<28, NaN, 35>>
    /\ last.df.volumes = <<20, 10>>
    /\ last.df.emas = <<101, 100>>
    /\ last.side = "buy"
    /\ last.result = FALSE


(* C24: when the three EMAs have values, calculate_trend follows its       *)
(* decision table, and never blocks both sides.                            *)
C24_Up ==
    /\ last.ema_fast > last.ema_medium /\ last.ema_medium > last.ema_slow
    /\ last.current_price > last.ema_fast

C24_Down ==
    /\ last.ema_fast < last.ema_medium /\ last.ema_medium < last.ema_slow
    /\ last.current_price < last.ema_fast

C24_TrendDecisionTable ==
    (/\ last.kind = "calculate_trend"
     /\ ~last.result.raised
     /\ NaN \notin {last.ema_fast, last.ema_medium, last.ema_slow}) =>
        LET r == last.result
        IN  /\ C24_Up =>
                  /\ r.direction = "up"
                  /\ r.strength \in {"strong", "weak"}
                  /\ r.strength = "strong" <=>
                        1000 * (last.ema_fast - last.ema_slow) > 2 * last.ema_slow
                  /\ r.allow_buy
                  /\ r.allow_sell <=> r.strength # "strong"
            /\ C24_Down =>
                  /\ r.direction = "down"
                  /\ r.strength \in {"strong", "weak"}
                  /\ r.strength = "strong" <=>
                        1000 * (last.ema_slow - last.ema_fast) > 2 * last.ema_slow
                  /\ r.allow_sell
                  /\ r.allow_buy <=> r.strength # "strong"
            /\ (~C24_Up /\ ~C24_Down) =>
                  /\ r.direction = "sideways" /\ r.strength = "neutral"
                  /\ r.allow_buy /\ r.allow_sell
            /\ r.allow_buy \/ r.allow_sell

(* C24 witness: an uptrend whose spread is exactly 0.2 % of the slow EMA,  *)
(* which is weak and blocks nothing.                                       *)
C24_Witness ==
    /\ last.kind = "calculate_trend"
    /\ ~last.result.raised
    /\ last.ema_fast = 1002 /\ last.ema_medium = 1001 /\ last.ema_slow = 1000
    /\ last.current_price = 1004
    /\ last.result.direction = "up" /\ last.result.strength = "weak"
    /\ last.result.allow_sell


(* C25: on a price history shorter than one of the three EMA periods,      *)
(* calculate_trend does not raise and returns neutral / neutral with both  *)
(* sides allowed.                                                          *)
C25_ShortHistoryIsNeutral ==
    (/\ last.kind = "calculate_trend"
     /\ \/ last.length < trend_fast_ema
        \/ last.length < trend_medium_ema
        \/ last.length < trend_slow_ema) =>
        /\ ~last.result.raised
        /\ last.result.direction = "neutral"
        /\ last.result.strength = "neutral"
        /\ last.result.allow_buy /\ last.result.allow_sell


(* C26: calculate raises ValueError, and computes nothing, whenever the    *)
(* data has fewer points than the period of the calculation, a per-call    *)
(* override included.                                                      *)
C26_RaisesBelowRequestedPeriod ==
    (last.kind = "calculate" /\ last.length < last.result.period) =>
        (last.result.raised /\ ~last.result.computed)


(* C27: the RSI series has the length of the price series and its first    *)
(* element is NaN, never a number.                                         *)
C27_RsiFirstElementNaN ==
    (last.kind = "rsi" /\ ~last.result.raised) =>
        /\ Len(last.result.rsi) = Len(last.prices)
        /\ last.result.rsi[1].nan


(* C28: every defined RSI value lies in [0, 100]; it is 100 exactly when   *)
(* there was no loss so far and at least one gain; and the RSI of a flat   *)
(* price sequence is 50 throughout.                                        *)
C28_NoLossSoFar(i) ==
    /\ \A j \in 1..(i - 1) : last.prices[j + 1] >= last.prices[j]
    /\ \E j \in 1..(i - 1) : last.prices[j + 1] > last.prices[j]

C28_Flat == \A j \in DOMAIN last.prices : last.prices[j] = last.prices[1]

C28_RsiRangeAndExtremes ==
    (last.kind = "rsi" /\ ~last.result.raised) =>
        \A i \in DOMAIN last.result.rsi :
            LET v == last.result.rsi[i]
            IN  ~v.nan =>
                  /\ v.den > 0
                  /\ 0 <= v.num /\ v.num <= 100 * v.den
                  /\ (v.num = 100 * v.den) <=> C28_NoLossSoFar(i)
                  /\ C28_Flat => v.num = 50 * v.den

(* C28 as the code has it: with a period of 2 or more the smoothed loss is *)
(* zero and the smoothed gain positive exactly when there was no loss so   *)
(* far and at least one gain; with period 1 nothing is remembered, and     *)
(* they are so exactly when the last change is a gain.                     *)
C28_Period == IF last.has_override THEN last.override ELSE last.self_period

C28_LastChangeIsGain(i) == i > 1 /\ last.prices[i] > last.prices[i - 1]

C28_RsiRangeAndSmoothedExtremes ==
    (last.kind = "rsi" /\ ~last.result.raised) =>
        \A i \in DOMAIN last.result.rsi :
            LET v == last.result.rsi[i]
            IN  ~v.nan =>
                  /\ v.den > 0
                  /\ 0 <= v.num /\ v.num <= 100 * v.den
                  /\ (v.num = 100 * v.den) <=>
                        IF C28_Period = 1
                        THEN C28_LastChangeIsGain(i)
                        ELSE C28_NoLossSoFar(i)
                  /\ C28_Flat => v.num = 50 * v.den

(* C28 witness: with period 2, a gain, a loss and a larger gain give 100   *)
(* after the first bar and a value strictly between 0 and 100 after the    *)
(* loss.                                                                   *)
C28_Witness ==
    /\ last.kind = "rsi" /\ ~last.result.raised
    /\ last.prices = <<10, 11, 10, 12>>
    /\ ~last.has_override /\ last.self_period = 2
    /\ last.result.rsi[2] = rsi_number(100, 1)
    /\ last.result.rsi[4].num > 0
    /\ last.result.rsi[4].num < 100 * last.result.rsi[4].den


(* C29: when update_stop_loss returns a stop with a BREAKEVEN or TRAILING  *)
(* reason, the record it leaves already holds that stop as stop_loss,      *)
(* before any write by the caller.                                         *)
C29_UpdateAdoptsReturnedStop ==
    (pc = "update" /\ todo # {}) =>
        LET t == MinOf(todo)
            r == update_stop_loss(get_strategy(trailing_stop_manager),
                                  position_tracking[t], current_price,
                                  current_atr)
        IN  r.reason \in {"BREAKEVEN", "TRAILING"} =>
                r.position.stop_loss = r.new_stop

(* C30: an update that returns UNCHANGED returns the record's current stop *)
(* and leaves every field of the record as it was, except the peak of a    *)
(* BUY (highest_price) or the trough of a SELL (lowest_price).             *)
C30Step ==
    (pc = "update" /\ last'.kind = "update" /\ last'.reason = "UNCHANGED") =>
        LET t == last'.ticket
            old == position_tracking[t]
            new == position_tracking'[t]
        IN  /\ last'.after = old.stop_loss
            /\ new.stop_loss = old.stop_loss
            /\ new.initial_stop = old.initial_stop
            /\ new.breakeven_triggered = old.breakeven_triggered
            /\ new.stop_adjustments = old.stop_adjustments
            /\ new.type = old.type /\ new.entry = old.entry
            /\ old.type = "BUY" => new.lowest_price = old.lowest_price
            /\ old.type = "SELL" => new.highest_price = old.highest_price

C30_UnchangedLeavesRecord == [][C30Step]_vars

(* C30 witness: an UNCHANGED update of a BUY whose peak is the bar's       *)
(* price, above the entry, and of a record that already has a history.     *)
C30_Witness ==
    /\ last.kind = "update" /\ last.reason = "UNCHANGED"
    /\ last.ticket \in DOMAIN position_tracking
    /\ LET position == position_tracking[last.ticket]
       IN  /\ position.type = "BUY"
           /\ position.highest_price = last.price
           /\ position.highest_price > position.entry
           /\ position.stop_adjustments # << >>


(* C31: positions the bot does not track do not block its entries: when    *)
(* the entry is evaluated with only untracked positions open, the tick     *)
(* counts no position as held, so an entry signal goes on to the order.    *)
C31_UntrackedDoNotBlock ==
    (/\ pc = "entry"
     /\ broker # EmptyMap
     /\ (DOMAIN broker) \cap (DOMAIN position_tracking) = {}) =>
        ~has_any_position


(* C32: an entry order is sent only in a tick none of whose position       *)
(* queries returned an open position.  When the placement step is reached, *)
(* positions is what the initial query returned (the recheck found         *)
(* nothing, or the tick would hold a position), and the final check        *)
(* returned nothing.                                                       *)
C32Step ==
    (/\ pc = "place"
     /\ last'.kind = "order"
     /\ last'.outcome \in {"filled", "rejected"}) => positions = {}

C32_OrderOnlyWhenNoPositionReported == [][C32Step]_vars


(* C33: at the end of every tick the shadow stop of every tracked open     *)
(* position is the stop the broker holds for its ticket.                   *)
C33_ShadowStopIsBrokerStop ==
    (pc = "poll" /\ ticks > 0) =>
        \A t \in (DOMAIN position_tracking) \cap (DOMAIN broker) :
            position_tracking[t].stop_loss = broker[t].sl

(* C34: once breakeven has triggered for a tracked position, its stop is    *)
(* never on the losing side of the entry price: at or above the entry for a *)
(* BUY, at or below it for a SELL, whatever bars follow (ATR >= 0).         *)
C34_StopNotBehindEntry ==
    \A t \in DOMAIN position_tracking :
        LET r == position_tracking[t]
        IN  r.breakeven_triggered =>
                IF r.type = "BUY"
                THEN r.stop_loss >= Pts(r.entry)
                ELSE r.stop_loss <= Pts(r.entry)

(* C34 witness: a record at breakeven whose latest update, on a profitable  *)
(* bar, offered a trailing candidate behind the entry and kept the stop.    *)
C34_Witness ==
    /\ last.kind = "update" /\ last.reason = "UNCHANGED"
    /\ last.atr > 0
    /\ last.ticket \in DOMAIN position_tracking
    /\ LET r == position_tracking[last.ticket]
           c == _calculate_trailing_stop(get_strategy(trailing_stop_manager),
                                         r, last.price, last.atr)
       IN  /\ r.breakeven_triggered
           /\ Len(r.stop_adjustments) >= 1
           /\ _is_profitable(r, last.price)
           /\ IF r.type = "BUY" THEN c < Pts(r.entry) ELSE c > Pts(r.entry)

(* C35: the adjustment history of a tracked position is well-formed: it     *)
(* grows by one record exactly on an update whose reason is not UNCHANGED   *)
(* (so total_adjustments counts those updates), it starts empty, its first  *)
(* record is the BREAKEVEN one and every later one is TRAILING, the first   *)
(* old_stop is initial_stop and every later old_stop is the new_stop of the *)
(* record before it.                                                        *)
WellFormedHistory(r) ==
    LET h == get_stop_statistics(r).adjustments
    IN  \A i \in 1..Len(h) :
            /\ h[i].reason = (IF i = 1 THEN "BREAKEVEN" ELSE "TRAILING")
            /\ h[i].old_stop = (IF i = 1 THEN r.initial_stop ELSE h[i-1].new_stop)

C35Step ==
    /\ \A t \in DOMAIN position_tracking' :
           /\ WellFormedHistory(position_tracking'[t])
           /\ t \notin DOMAIN position_tracking =>
                  get_stop_statistics(position_tracking'[t]).total_adjustments = 0
    /\ \A t \in Surviving :
           get_stop_statistics(position_tracking'[t]).total_adjustments =
               get_stop_statistics(position_tracking[t]).total_adjustments +
               (IF /\ pc = "update" /\ last'.kind = "update" /\ last'.ticket = t
                   /\ last'.reason # "UNCHANGED"
                THEN 1 ELSE 0)

C35_HistoryWellFormed == [][C35Step]_vars

(* C35 witness: a trailing update that appended a record to a history that  *)
(* already held the breakeven record and a trailing one.                    *)
C35_Witness ==
    /\ last.kind = "update" /\ last.reason = "TRAILING"
    /\ last.ticket \in DOMAIN position_tracking
    /\ LET r == position_tracking[last.ticket]
       IN  /\ get_stop_statistics(r).total_adjustments >= 3
           /\ r.stop_adjustments[1].new_stop # r.initial_stop
           /\ r.stop_adjustments[3].old_stop # r.stop_adjustments[2].old_stop

(* C36: a size that calculate_advanced_position_size produced at the      *)
(* effective risk r percent, with neither the minimum nor a maximum        *)
(* applied, gets from can_open_new_position a new-position risk percent    *)
(* equal to r up to the rounding of the size to 0.01 lot (half a hundredth *)
(* of a lot over the stop distance), for JPY symbols as for the others.    *)
C36_Unclamped ==
    /\ last.kind = "advanced_size_then_can_open"
    /\ last.stop_distance > 0
    /\ LET dollars == last.balance \div 100
           size == risk_position_size(last.jpy, dollars,
                       Min(last.risk, last.max_risk), last.entry_price,
                       last.stop_distance)
           dmax == advanced_dynamic_max_size(dollars, last.max_size_percent)
       IN  /\ size[1] >= last.min_size * size[2]
           /\ size[1] * dmax[2] <= dmax[1] * size[2]
           /\ last.has_absolute => size[1] <= last.max_size_absolute * size[2]

C36_SizingAgreesWithRiskCheck ==
    C36_Unclamped =>
        Abs(last.new_num - Min(last.risk, last.max_risk) * last.balance)
            <= 1000 * last.stop_distance * 5

(* C37: the dynamic and the advanced sizing never return a size below      *)
(* min_size, and never one above max_size_absolute when an absolute        *)
(* maximum is given, whatever the balance, the stop distance and the       *)
(* percentage cap.                                                         *)
C37_SizeWithinMinAndAbsoluteMax ==
    last.kind = "calculate_dynamic_position_size" =>
        /\ last.result >= last.min_size
        /\ last.has_absolute => last.result <= last.max_size_absolute

====
